---- MODULE Spec2Model ----
(***************************************************************************)
(* Model of the event-stream router, src/eventstream-router/app.ts:        *)
(* the LastSeen cursor store, run()/start() (the stream connector), the    *)
(* RouteValidator (validation of the route classes and their readiness    *)
(* promises), the per-message dispatch, the transport error handler and    *)
(* the health-check interval of streamWithRoutes().                        *)
(*                                                                         *)
(* Time is in seconds since the epoch (the unit of data.timestamp and of   *)
(* the persisted cursor).  JavaScript runs each handler to completion, so  *)
(* every handler, together with the promise continuations (microtasks) it  *)
(* makes runnable, is one action.                                          *)
(***************************************************************************)
EXTENDS Integers, Sequences, FiniteSets

VARIABLES
    now,          \* wall clock, seconds
    argvFromNow,  \* argv.fromNow
    lastSeenTs,   \* lastSeen.ts (Undefined until the first accepted event)
    file,         \* content of the last-seen file
    writeDue,     \* earliest time of the next LastSeen.write() tick
    stream,       \* module variable `stream`: index into conns, 0 = undefined
    conns,        \* every EventSource created so far, in creation order
    sleeps,       \* due times of pending bot.sleep(5 * SECOND) continuations
    healthDue,    \* earliest time of the next health-check tick
    upstream,     \* events that have occurred at the upstream source
    ready,        \* route -> state of RouteValidator.ready
    chained,      \* route -> events whose ready.then() continuation is waiting
    received,     \* history: every message handed to stream.onmessage
    filterCalls,  \* history: route -> events its filter was invoked with
    workerCalls,  \* history: route -> events its worker was invoked with
    errLog,       \* history: <<route, event id>> the catch passed to logError
    escapes,      \* history: filter/worker exceptions the catch did not stop
    orphans,      \* history: number of promises that ended rejected with no
                  \* handler because a ready promise rejected
    lastRecvAt,   \* history: time of the last accepted event (or of start)
    stallRestarts, \* history: health restarts since the last accepted event
    inputs,       \* number of inputs the environment has given so far
    routeDefs,    \* the route classes passed to streamWithRoutes()
    validated,    \* validatedRoutes: the names of the registered routes
    aborted,      \* streamWithRoutes() threw before it called start()
    initCalls,    \* history: per route class, how often init() was invoked
    running,      \* route -> ids of events whose worker promise is pending
    unhandled,    \* history: <<route, event id>> of worker promises that
                  \* rejected with no rejection handler attached
    errorsSeen,   \* history: every event handed to stream.onerror
    writes,       \* history: how each LastSeen.write() so far ended
    flushed,      \* history: route -> number of continuations that ran when
                  \* its ready promise fulfilled
    g13Table,     \* the rows of the table g13 of the g13-watch route
    g13Runs,      \* history: the invocations of g13Watch.worker so far
    routerLog,    \* history: the routing log's lines and the worker
                  \* invocations of the g13-watch route, in the order made
    alive,        \* the process has not been ended by an uncaught exception
    thrown,       \* history: the exceptions that left stream.onmessage
    disk,         \* the last-seen file as text: whether it can be read, and
                  \* its characters
    readBack      \* history: what the calls of LastSeen.read() returned

\* written by streamWithRoutes() before start() only
startupVars == <<routeDefs, validated, aborted, initCalls>>

\* the state of the g13-watch worker's database
g13Vars == <<g13Table, g13Runs, routerLog>>

\* the outcome of stream.onmessage for messages that are no events
msgVars == <<alive, thrown>>

\* the last-seen file taken as text
storeVars == <<disk, readBack>>

vars == <<now, argvFromNow, lastSeenTs, file, writeDue, stream, conns, sleeps,
          healthDue, upstream, ready, chained, received, filterCalls,
          workerCalls, errLog, escapes, orphans, lastRecvAt, stallRestarts,
          inputs, startupVars, running, unhandled, errorsSeen, writes,
          flushed, g13Vars, msgVars, storeVars>>

----------------------------------------------------------------------------
(* Bounds of the model *)

\* the timestamps 0..MaxTs are written to the last-seen file and read back
MaxTs == 110

\* the number of writes, and of reads, of the last-seen file that are followed
MaxStoreOps == 2

\* the number of inputs the environment gives: events occurring upstream,
\* clock advances, transport errors, settled route initialisers and settled
\* worker promises
MaxInputs == 4

\* the number of route classes passed to streamWithRoutes()
MaxDefs == 2

\* the number of invocations of g13Watch.worker
MaxRuns == 3

(* Program constants, in seconds *)

SECOND == 1
MINUTE == 60
DAY == 86400

\* evt.status === 429
TooManyRequests == 429

\* lastSeenUpdateInterval default: SECOND
WriteInterval == SECOND
\* bot.sleep(5 * SECOND)
Backoff == 5 * SECOND
\* lastSeen.get().add(2, 'minutes')
Grace == 2 * MINUTE
\* config.healthCheckInterval || 2 * MINUTE
HealthInterval == 2 * MINUTE
\* new bot.Date().subtract(7, 'days')
RecencyWindow == 7 * DAY

\* process start time
T0 == 10 * DAY

(* Values that are not timestamps.  Timestamps are >= 0. *)

\* the number NaN: parseInt of a non-number, or a failed read
NaN == -1
\* lastSeen.ts before the first assignment
Undefined == -2
\* the last-seen file does not exist or cannot be read
NoFile == -3
\* the last-seen file holds the text "undefined"
TextUndefined == -4

Routes == {"alpha", "beta", "gamma"}
\* the kinds of upstream event: type and meta.domain
Kinds == {<<"edit", "en.wikipedia.org">>, <<"log", "en.wikipedia.org">>,
          <<"edit", "canary">>}

Last(s) == s[Len(s)]

----------------------------------------------------------------------------
(* LastSeen, the cursor store *)

\* Variant of LastSeen_read: the read hands on whatever it found.
LastSeen_read_raw(f) == f

\* LastSeen.read(): parseInt of the file's text, NaN when the read throws
\* or the text is not a decimal number
LastSeen_read(f) == IF f >= 0 THEN f ELSE NaN

\* LastSeen.write(): the text written to the file, String(this.ts)
LastSeen_text(ts) == IF ts = Undefined THEN TextUndefined ELSE ts

\* Variant of LastSeen_get: always the persisted value.
LastSeen_get_persisted(ts, f) == LastSeen_read(f)

\* LastSeen.get(): the in-memory value if it is a number, else the file's
LastSeen_get(ts, f) == IF ts # Undefined THEN ts ELSE LastSeen_read(f)

\* bot.Date isValid()
isValid(d) == d # NaN

\* a.isBefore(b): false whenever either side is an invalid date
isBefore(a, b) == isValid(a) /\ isValid(b) /\ a < b

----------------------------------------------------------------------------
(* run(): the resume point and the connection *)

\* Variant of tsUsable: a cursor exactly 7 days old still counts as usable.
tsUsable_inclusive(ts, t) == isValid(ts) /\ t - RecencyWindow <= ts

\* const tsUsable = ts.isValid() &&
\*     new bot.Date().subtract(7, 'days').isBefore(ts)
tsUsable(ts, t) == isValid(ts) /\ isBefore(t - RecencyWindow, ts)

\* Variant of sinceOf: every connect resumes from the current time.
sinceOf_now(fromNow, ts, t) == t

\* let since = !argv.fromNow && tsUsable ? ts : new bot.Date()
sinceOf(fromNow, ts, t) == IF ~fromNow /\ tsUsable(ts, t) THEN ts ELSE t

\* Variant of closeExisting: run() without the close of the old connection.
closeExisting_skipped(cs, s) == cs

\* if (stream) { stream.close() }: a closed connection delivers nothing more
closeExisting(cs, s) ==
    IF s # 0 THEN [cs EXCEPT ![s].status = "closed", ![s].pos = 0] ELSE cs

\* The upstream replays every event at or after the resume point: the first
\* position of the event log whose timestamp is >= since.
replayFrom(log, since) ==
    LET later == {i \in 1..Len(log) : log[i].ts >= since}
    IN  IF later = {} THEN Len(log) + 1
        ELSE CHOOSE i \in later : \A j \in later : i <= j

\* new EventSource(`...recentchange?since=${since.toISOString()}`): the
\* request is in flight until the transport opens the connection or reports
\* an error (`by` records the caller of start(): history only)
newEventSource(since, by) ==
    [since |-> since, status |-> "connecting",
     pos |-> replayFrom(upstream, since), by |-> by]

\* run(routes, lastSeen), called through start()
run(by) ==
    LET ts == LastSeen_get(lastSeenTs, file)
        since == sinceOf(argvFromNow, ts, now)
    IN  /\ conns' = Append(closeExisting(conns, stream),
                           newEventSource(since, by))
        /\ stream' = Len(conns) + 1

----------------------------------------------------------------------------
(* Routes and dispatch *)

\* The registered routes.  alpha and beta are the two routes of the routing
\* scenario (filter: type == "edit"; filter: always true).  gamma is a
\* faulty route: its filter throws on a log event and its worker throws on
\* an edit event.  alpha and beta keep the synchronous Route.init(), so
\* their ready promises are fulfilled before the first message; gamma's init
\* is asynchronous: it may fulfil late, reject or never settle.  beta's
\* worker is an async function (as g13Watch.worker): it returns a promise
\* that settles later.
SyncInit == {"alpha", "beta"}
MayReject == {"gamma"}

RouteFilter(r, e) ==
    CASE r = "alpha" -> IF e.type = "edit" THEN "true" ELSE "false"
      [] r = "beta"  -> "true"
      [] OTHER       -> IF e.type = "log" THEN "throw" ELSE "true"

RouteWorker(r, e) ==
    CASE r = "gamma" /\ e.type = "edit" -> "throw"
      [] r = "beta"                     -> "promise"
      [] OTHER                          -> "ok"

\* Variant of isCanary: the canary test looks at the event type.
isCanary_byType(e) == e.type = "canary"

\* if (data.meta.domain === 'canary') return;
isCanary(e) == e.domain = "canary"

\* Variant of runsContinuation: the continuation runs once init has settled,
\* fulfilled or rejected.
runsContinuation_settled(st) == st # "pending"

\* route.ready.then(() => {...}): the continuation runs only on fulfilment
runsContinuation(st) == st = "resolved"

\* Variant of readyRoutes: a route is dispatched to as soon as its init
\* has been started.
readyRoutes_eager(rd) == {r \in Routes : rd[r] \in {"pending", "resolved"}}

\* Variant of readyRoutes: no route is dispatched to until every route's
\* init has fulfilled.
readyRoutes_together(rd) ==
    IF \A r \in Routes : rd[r] = "resolved" THEN Routes ELSE {}

\* for (let route of routes) { route.ready.then(() => {...}) }: the routes
\* whose continuation runs as soon as it is chained
readyRoutes(rd) == {r \in Routes : runsContinuation(rd[r])}

\* Variant of invokesWorker: the worker runs whatever the filter returns.
invokesWorker_unfiltered(f) == f # "throw"

\* if (route.filter(data)) { ...; route.worker(data) }
invokesWorker(f) == f = "true"

\* whether filter or worker throws for this route and event
throws(r, e) ==
    LET f == RouteFilter(r, e)
    IN  f = "throw" \/ (invokesWorker(f) /\ RouteWorker(r, e) = "throw")

\* Variant of tryCatch: the dispatch has no try/catch.
tryCatch_missing(threw) == IF threw THEN "escaped" ELSE "done"

\* try { ... } catch (e) { logError(e, route.name) }: how a task ends
tryCatch(threw) == IF threw THEN "logged" ELSE "done"

taskOutcome(r, e) == tryCatch(throws(r, e))

\* the ids of the events of `tasks` whose task for route r ends as `how`
endedAs(r, tasks, how) ==
    {<<r, tasks[i].id>> :
        i \in {j \in 1..Len(tasks) : taskOutcome(r, tasks[j]) = how}}

workerEvents(r, tasks) ==
    SelectSeq(tasks, LAMBDA e : invokesWorker(RouteFilter(r, e)))

\* the ids of a sequence of events
idsOf(tasks) == [i \in 1..Len(tasks) |-> tasks[i].id]

\* Variant of startedWorkers: the dispatch awaits the worker's promise, so
\* none is still pending when the handler returns.
startedWorkers_awaited(r, tasks) == <<>>

\* route.worker(data): the returned promise is neither awaited nor given a
\* handler; the invocations of `tasks` still pending after the dispatch
startedWorkers(r, tasks) ==
    idsOf(SelectSeq(workerEvents(r, tasks),
                    LAMBDA e : RouteWorker(r, e) = "promise"))

\* The continuations of the routes rs run, each route r on the events
\* tasks[r], in order.
Dispatched(rs, tasks) ==
    /\ filterCalls' = [r \in Routes |->
            IF r \in rs THEN filterCalls[r] \o tasks[r] ELSE filterCalls[r]]
    /\ workerCalls' = [r \in Routes |->
            IF r \in rs THEN workerCalls[r] \o workerEvents(r, tasks[r])
            ELSE workerCalls[r]]
    /\ errLog' = errLog \cup UNION {endedAs(r, tasks[r], "logged") : r \in rs}
    /\ escapes' = escapes \cup
            UNION {endedAs(r, tasks[r], "escaped") : r \in rs}
    /\ running' = [r \in Routes |->
            IF r \in rs THEN running[r] \o startedWorkers(r, tasks[r])
            ELSE running[r]]

\* Variant of enqueue: at most one continuation waits; a further one is
\* dropped.
enqueue_bounded(q, e) == IF Len(q) >= 1 THEN q ELSE Append(q, e)

\* route.ready.then(...) on a pending promise: one more continuation waits,
\* behind those chained before
enqueue(q, e) == Append(q, e)

\* Variant of persistedOnUpdate: the update writes through to the file.
persistedOnUpdate_writeThrough(f, ts) == LastSeen_text(ts)

\* lastSeen.ts = data.timestamp: a plain assignment to the field; the file
\* keeps its content
persistedOnUpdate(f, ts) == f

\* Variant of cursorAfter: the cursor keeps the greatest timestamp seen.
cursorAfter_max(ts, t) == IF ts # Undefined /\ ts > t THEN ts ELSE t

\* lastSeen.ts = data.timestamp: the value of the field after the
\* assignment, whatever it held
cursorAfter(ts, t) == t

\* stream.onmessage, for a message that parses into an event
onmessage(e) ==
    /\ received' = Append(received, e)
    /\ file' = IF isCanary(e) THEN file ELSE persistedOnUpdate(file, e.ts)
    /\ IF isCanary(e)
       THEN UNCHANGED <<lastSeenTs, lastRecvAt, stallRestarts, chained,
                        filterCalls, workerCalls, errLog, escapes, orphans,
                        running>>
       ELSE /\ lastSeenTs' = cursorAfter(lastSeenTs, e.ts)
            /\ lastRecvAt' = now
            /\ stallRestarts' = 0
            /\ chained' = [r \in Routes |->
                    IF ready[r] = "pending" THEN enqueue(chained[r], e)
                    ELSE chained[r]]
            /\ orphans' = orphans +
                    Cardinality({r \in Routes : ready[r] = "rejected"})
            /\ Dispatched(readyRoutes(ready), [r \in Routes |-> <<e>>])

----------------------------------------------------------------------------
(* RouteValidator and the registration of routes in streamWithRoutes() *)

\* What the filter or worker member of a route instance can be: a function;
\* undefined; or a value that is not a function and has a bind method of
\* its own whose result is not a function either.
MemberKinds == {"function", "undefined", "bindable"}

\* the names a route class can carry; "" is the empty name
DefNames == {"alpha", "beta", ""}

\* the route classes that can be passed to streamWithRoutes()
RouteClasses == [name : DefNames, filter : MemberKinds, worker : MemberKinds]

\* a route class with a name, a filter function and a worker function
GoodRoute(n) == [name |-> n, filter |-> "function", worker |-> "function"]

\* the routes registered in the running system
Registered == <<GoodRoute("alpha"), GoodRoute("beta"), GoodRoute("gamma")>>

\* route.worker.bind(route); route.filter.bind(route): reading bind of
\* undefined is a TypeError
bindThrows(d) == d.worker = "undefined" \/ d.filter = "undefined"

\* typeof this.filter !== 'function' || typeof this.worker !== 'function'
notFunctions(d) == d.filter # "function" \/ d.worker # "function"

\* RouteValidator.validate(routeCls): it throws, returns undefined (after
\* isValid = false) or returns the validator with isValid = true.  An empty
\* name is logged and changes nothing.
validate(d) ==
    IF bindThrows(d) THEN "TypeError"
    ELSE IF notFunctions(d) THEN "undefined"
    ELSE "valid"

\* routes.map(validate).filter(route => route.isValid): map stops at the
\* first validate() that throws; filter reads isValid of every result and
\* throws on undefined
startupAborts(defs) == \E i \in 1..Len(defs) : validate(defs[i]) # "valid"

\* validatedRoutes, as names
validatedRoutes(defs) == [i \in 1..Len(defs) |-> defs[i].name]

\* Variant of invokesInit: validation never calls init().
invokesInit_never(defs, i) == FALSE

\* new Promise(... Promise.resolve(this.init()) ...): validate() of the
\* i-th class reaches the call of init() if no earlier validate() threw
\* and this one found functions
invokesInit(defs, i) ==
    /\ validate(defs[i]) = "valid"
    /\ \A j \in 1..i : validate(defs[j]) # "TypeError"

\* the ready promise after validate() and the microtasks that follow it:
\* none was created, or init() returned at once, or its promise is pending
readyAfterStartup(defs, r) ==
    IF \E i \in 1..Len(defs) : defs[i].name = r /\ invokesInit(defs, i)
    THEN IF r \in SyncInit THEN "resolved" ELSE "pending"
    ELSE "none"

----------------------------------------------------------------------------
(* Initial state: the process before streamWithRoutes() *)

\* The last-seen file at process start: missing, or a cursor 8 days old,
\* exactly 7 days old, or one second less than 7 days old.
InitFiles ==
    {NoFile, T0 - 8 * DAY, T0 - RecencyWindow, T0 - RecencyWindow + SECOND}

\* The start-up configurations: every file without argv.fromNow, and
\* argv.fromNow with a usable cursor in the file.
InitConfigs ==
    {<<FALSE, f>> : f \in InitFiles}
        \cup {<<TRUE, T0 - RecencyWindow + SECOND>>}

\* the state before streamWithRoutes(), the cursor store apart
InitRest ==
    /\ now = T0
    /\ \E c \in InitConfigs : argvFromNow = c[1] /\ file = c[2]
    /\ writeDue = T0 + WriteInterval
    /\ stream = 0
    /\ conns = <<>>
    /\ sleeps = <<>>
    /\ healthDue = 0
    /\ upstream = <<>>
    /\ ready = [r \in Routes |-> "none"]
    /\ chained = [r \in Routes |-> <<>>]
    /\ received = <<>>
    /\ filterCalls = [r \in Routes |-> <<>>]
    /\ workerCalls = [r \in Routes |-> <<>>]
    /\ errLog = {}
    /\ escapes = {}
    /\ orphans = 0
    /\ lastRecvAt = T0
    /\ stallRestarts = 0
    /\ inputs = 0
    /\ validated = <<>>
    /\ aborted = FALSE
    /\ initCalls = <<>>
    /\ running = [r \in Routes |-> <<>>]
    /\ unhandled = {}
    /\ errorsSeen = <<>>
    /\ writes = <<>>
    /\ flushed = [r \in Routes |-> 0]
    /\ g13Table = {}
    /\ g13Runs = <<>>
    /\ routerLog = <<>>
    /\ alive = TRUE
    /\ thrown = <<>>
    /\ readBack = <<>>

\* new LastSeen(...): ts is unassigned.  (The text of the file is followed
\* in the specification of the cursor store only.)
InitState ==
    /\ InitRest
    /\ lastSeenTs = Undefined
    /\ disk = [readable |-> FALSE, chars |-> <<>>]

\* the running system: streamWithRoutes(Registered)
Init == InitState /\ routeDefs = Registered

\* streamWithRoutes() given any list of at most MaxDefs route classes
InitAnyRoutes ==
    /\ InitState
    /\ \E n \in 0..MaxDefs : routeDefs \in [1..n -> RouteClasses]

----------------------------------------------------------------------------
(* Actions *)

\* streamWithRoutes(): validate the routes; start(validatedRoutes,
\* lastSeen); setInterval(...).  An exception thrown while validating ends
\* streamWithRoutes() before start().
Start ==
    /\ stream = 0
    /\ ~aborted
    /\ initCalls' = [i \in 1..Len(routeDefs) |->
            IF invokesInit(routeDefs, i) THEN 1 ELSE 0]
    /\ ready' = [r \in Routes |-> readyAfterStartup(routeDefs, r)]
    /\ routeDefs' = routeDefs
    /\ IF startupAborts(routeDefs)
       THEN /\ aborted' = TRUE
            /\ UNCHANGED <<validated, stream, conns, healthDue>>
       ELSE /\ aborted' = FALSE
            /\ validated' = validatedRoutes(routeDefs)
            /\ run("startup")
            /\ healthDue' = now + HealthInterval
    /\ UNCHANGED <<now, argvFromNow, lastSeenTs, file, writeDue, sleeps,
                   upstream, chained, received, filterCalls, workerCalls,
                   errLog, escapes, orphans, lastRecvAt, stallRestarts,
                   inputs, running, unhandled, errorsSeen, writes,
                   flushed, g13Vars, msgVars,
                   storeVars>>

\* The process is running and the persistence timer is not overdue.  Its
\* interval (1 s) is below the smallest clock step, so whenever the clock has
\* advanced the timer has ticked before any other handler runs.
Running == stream # 0 /\ alive /\ now < writeDue

\* Time passes.  The health-check and back-off timers fire at or after
\* their due time.
Advance(d) ==
    /\ Running
    /\ inputs < MaxInputs
    /\ now' = now + d
    /\ inputs' = inputs + 1
    /\ UNCHANGED <<argvFromNow, lastSeenTs, file, writeDue, stream, conns,
                   sleeps, healthDue, upstream, ready, chained, received,
                   filterCalls, workerCalls, errLog, escapes, orphans,
                   lastRecvAt, stallRestarts, startupVars, running,
                   unhandled, errorsSeen, writes, flushed, g13Vars, msgVars,
                   storeVars>>

\* An event occurs at the upstream source, stamped with the current time.
Occur(ty, dom) ==
    /\ Running
    /\ inputs < MaxInputs
    /\ inputs' = inputs + 1
    /\ upstream' = Append(upstream,
            [id |-> Len(upstream) + 1, ts |-> now, type |-> ty, domain |-> dom])
    /\ UNCHANGED <<now, argvFromNow, lastSeenTs, file, writeDue, stream,
                   conns, sleeps, healthDue, ready, chained, received,
                   filterCalls, workerCalls, errLog, escapes, orphans,
                   lastRecvAt, stallRestarts, startupVars, running,
                   unhandled, errorsSeen, writes, flushed, g13Vars, msgVars,
                   storeVars>>

\* The open connection delivers its next event: stream.onmessage(event)
Deliver ==
    /\ Running
    /\ conns[stream].status = "open"
    /\ conns[stream].pos <= Len(upstream)
    /\ onmessage(upstream[conns[stream].pos])
    /\ conns' = [conns EXCEPT ![stream].pos = @ + 1]
    /\ UNCHANGED <<now, argvFromNow, writeDue, stream, sleeps, healthDue,
                   upstream, ready, inputs, startupVars, unhandled,
                   errorsSeen, writes, flushed, g13Vars, msgVars,
                   storeVars>>

\* Variant of flushOrder: the continuations run last chained first.
flushOrder_reversed(q) == [i \in 1..Len(q) |-> q[Len(q) + 1 - i]]

\* the continuations chained on a promise run in the order of chaining
flushOrder(q) == q

\* Promise.resolve(this.init()).then(() => resolve(), ...): the route's
\* init fulfils; the continuations chained on ready run in order.
InitResolve(r) ==
    /\ Running
    /\ inputs < MaxInputs
    /\ inputs' = inputs + 1
    /\ ready[r] = "pending"
    /\ ready' = [ready EXCEPT ![r] = "resolved"]
    /\ chained' = [chained EXCEPT ![r] = <<>>]
    /\ flushed' = [flushed EXCEPT ![r] = @ + Len(chained[r])]
    /\ Dispatched({q \in {r} : runsContinuation(ready'[q])},
                  [q \in Routes |-> flushOrder(chained[q])])
    /\ UNCHANGED <<now, argvFromNow, lastSeenTs, file, writeDue, stream,
                   conns, sleeps, healthDue, upstream, received, orphans,
                   lastRecvAt, stallRestarts, startupVars, unhandled,
                   errorsSeen, writes, g13Vars, msgVars,
                   storeVars>>

\* reject() of a ready promise on which the continuations q are chained by
\* then(onFulfilled) alone: each promise then() returned ends rejected with
\* no handler; with nothing chained, ready itself does
rejectedUnhandled(q) == IF q = <<>> THEN 1 ELSE Len(q)

\* ... .then(..., (err) => { reject(); logError(err, route.name) }): the
\* route's init rejects; the chained continuations never run.
InitReject(r) ==
    /\ Running
    /\ inputs < MaxInputs
    /\ inputs' = inputs + 1
    /\ ready[r] = "pending"
    /\ ready' = [ready EXCEPT ![r] = "rejected"]
    /\ chained' = [chained EXCEPT ![r] = <<>>]
    /\ orphans' = orphans + rejectedUnhandled(chained[r])
    /\ Dispatched({q \in {r} : runsContinuation(ready'[q])}, chained)
    /\ UNCHANGED <<now, argvFromNow, lastSeenTs, file, writeDue, stream,
                   conns, sleeps, healthDue, upstream, received, lastRecvAt,
                   stallRestarts, startupVars, unhandled, errorsSeen,
                   writes, flushed, g13Vars, msgVars,
                   storeVars>>

\* The transport opens the current connection: stream.onopen, which only
\* logs.
Open ==
    /\ Running
    /\ conns[stream].status = "connecting"
    /\ conns' = [conns EXCEPT ![stream].status = "open"]
    /\ UNCHANGED <<now, argvFromNow, lastSeenTs, file, writeDue, stream,
                   sleeps, healthDue, upstream, ready, chained, received,
                   filterCalls, workerCalls, errLog, escapes, orphans,
                   lastRecvAt, stallRestarts, inputs, startupVars, running,
                   unhandled, errorsSeen, writes, flushed, g13Vars, msgVars,
                   storeVars>>

\* evt.message of an error event: undefined, or a text
Messages == {"undefined", "text"}

\* HTTP status codes other than 200 and 429 a connection request can be
\* answered with: after 500 the transport retries by itself, after 403 it
\* closes the connection
OtherStatuses == {500, 403}

\* an event handed to stream.onerror (its type is always 'error')
ErrorEvent(m, st) == [type |-> "error", message |-> m, status |-> st]

\* if (evt.type === 'error' && evt.message === undefined) return;
benign(evt) == evt.type = "error" /\ evt.message = "undefined"

\* Variant of schedulesRestart: every error that is logged restarts.
schedulesRestart_anyStatus(evt) == ~benign(evt)

\* if (evt.status === 429) bot.sleep(5 * SECOND).then(() => start(...)),
\* reached only if the handler has not returned before
schedulesRestart(evt) == ~benign(evt) /\ evt.status = TooManyRequests

\* stream.onerror(evt)
onerror(evt) ==
    /\ errorsSeen' = Append(errorsSeen, evt)
    /\ sleeps' = IF schedulesRestart(evt) THEN Append(sleeps, now + Backoff)
                 ELSE sleeps

\* The connection request is answered with status 429: the transport
\* closes the connection for good and reports the error.
Error429(m) ==
    /\ Running
    /\ inputs < MaxInputs
    /\ inputs' = inputs + 1
    /\ conns[stream].status = "connecting"
    /\ conns' = [conns EXCEPT ![stream].status = "failed"]
    /\ onerror(ErrorEvent(m, TooManyRequests))
    /\ UNCHANGED <<now, argvFromNow, lastSeenTs, file, writeDue, stream,
                   healthDue, upstream, ready, chained, received,
                   filterCalls, workerCalls, errLog, escapes, orphans,
                   lastRecvAt, stallRestarts, startupVars, running,
                   unhandled, writes, flushed, g13Vars, msgVars,
                   storeVars>>

\* The connection request is answered with another error status: the
\* transport reports it and either keeps retrying or closes the connection.
ErrorStatus(st) ==
    /\ Running
    /\ inputs < MaxInputs
    /\ inputs' = inputs + 1
    /\ conns[stream].status = "connecting"
    /\ conns' = [conns EXCEPT ![stream].status =
                    IF st = 500 THEN "connecting" ELSE "failed"]
    /\ onerror(ErrorEvent("text", st))
    /\ UNCHANGED <<now, argvFromNow, lastSeenTs, file, writeDue, stream,
                   healthDue, upstream, ready, chained, received,
                   filterCalls, workerCalls, errLog, escapes, orphans,
                   lastRecvAt, stallRestarts, startupVars, running,
                   unhandled, writes, flushed, g13Vars, msgVars,
                   storeVars>>

\* The server drops the open connection (it does so every 15 minutes): the
\* transport reports an error without message or status and reconnects by
\* itself, resuming after the last event it received.
Disconnect ==
    /\ Running
    /\ inputs < MaxInputs
    /\ inputs' = inputs + 1
    /\ conns[stream].status = "open"
    /\ conns' = [conns EXCEPT ![stream].status = "connecting"]
    /\ onerror(ErrorEvent("undefined", Undefined))
    /\ UNCHANGED <<now, argvFromNow, lastSeenTs, file, writeDue, stream,
                   healthDue, upstream, ready, chained, received,
                   filterCalls, workerCalls, errLog, escapes, orphans,
                   lastRecvAt, stallRestarts, startupVars, running,
                   unhandled, writes, flushed, g13Vars, msgVars,
                   storeVars>>

\* The promise returned by a worker settles.  No handler was attached to
\* it, so a rejection is an unhandled rejection.
WorkerSettle(r, i, how) ==
    /\ Running
    /\ inputs < MaxInputs
    /\ inputs' = inputs + 1
    /\ i \in 1..Len(running[r])
    /\ running' = [running EXCEPT ![r] =
            SubSeq(@, 1, i - 1) \o SubSeq(@, i + 1, Len(@))]
    /\ unhandled' = IF how = "rejected"
                    THEN unhandled \cup {<<r, running[r][i]>>}
                    ELSE unhandled
    /\ UNCHANGED <<now, argvFromNow, lastSeenTs, file, writeDue, stream,
                   conns, sleeps, healthDue, upstream, ready, chained,
                   received, filterCalls, workerCalls, errLog, escapes,
                   orphans, lastRecvAt, stallRestarts, startupVars,
                   errorsSeen, writes, flushed, g13Vars, msgVars,
                   storeVars>>

\* the sleep of a rate-limited connection ends: start(routes, lastSeen)
BackoffFire(i) ==
    /\ Running
    /\ i \in 1..Len(sleeps)
    /\ now >= sleeps[i]
    /\ sleeps' = SubSeq(sleeps, 1, i - 1) \o SubSeq(sleeps, i + 1, Len(sleeps))
    /\ run("backoff")
    /\ UNCHANGED <<now, argvFromNow, lastSeenTs, file, writeDue, healthDue,
                   upstream, ready, chained, received, filterCalls,
                   workerCalls, errLog, escapes, orphans, lastRecvAt,
                   stallRestarts, inputs, startupVars, running, unhandled,
                   errorsSeen, writes, flushed, g13Vars, msgVars,
                   storeVars>>

\* d.add(n, unit): an invalid date stays invalid
add(d, n) == IF isValid(d) THEN d + n ELSE NaN

\* Variant of stalled: the monitor restarts once per stall only.
stalled_once(ts, t) == isBefore(add(ts, Grace), t) /\ stallRestarts = 0

\* if (lastSeen.get().add(2, 'minutes').isBefore(new Date()))
stalled(ts, t) == isBefore(add(ts, Grace), t)

\* the health-check interval of streamWithRoutes()
HealthTick ==
    /\ Running
    /\ now >= healthDue
    /\ healthDue' = now + HealthInterval
    /\ IF stalled(LastSeen_get(lastSeenTs, file), now)
       THEN run("health") /\ stallRestarts' = stallRestarts + 1
       ELSE UNCHANGED <<conns, stream, stallRestarts>>
    /\ UNCHANGED <<now, argvFromNow, lastSeenTs, file, writeDue, sleeps,
                   upstream, ready, chained, received, filterCalls,
                   workerCalls, errLog, escapes, orphans, lastRecvAt, inputs,
                   startupVars, running, unhandled, errorsSeen, writes,
                   flushed, g13Vars, msgVars,
                   storeVars>>

\* Variant of nextWrite: the timer stops after a failed write.
nextWrite_untilFailure(t, ok) == IF ok THEN t + WriteInterval ELSE t + T0

\* setInterval(..., this.updateInterval): the next tick is due one interval
\* later, however the write ends (err => err && console.log(err))
nextWrite(t, ok) == t + WriteInterval

\* setInterval(() => this.write(), this.updateInterval); fs.writeFile
\* either replaces the file's content or fails and leaves it
WriteTick(ok) ==
    /\ stream # 0
    /\ alive
    /\ now >= writeDue
    /\ writeDue' = nextWrite(now, ok)
    /\ file' = IF ok THEN LastSeen_text(lastSeenTs) ELSE file
    /\ writes' = Append(writes, IF ok THEN "ok" ELSE "failed")
    /\ UNCHANGED <<now, argvFromNow, lastSeenTs, stream, conns, sleeps,
                   healthDue, upstream, ready, chained, received,
                   filterCalls, workerCalls, errLog, escapes, orphans,
                   lastRecvAt, stallRestarts, inputs, startupVars, running,
                   unhandled, errorsSeen, flushed, g13Vars, msgVars,
                   storeVars>>

AdvanceSteps == {Backoff, Grace + SECOND}

Next ==
    \/ Start
    \/ \E d \in AdvanceSteps : Advance(d)
    \/ \E k \in Kinds : Occur(k[1], k[2])
    \/ Open
    \/ Deliver
    \/ \E r \in Routes \ SyncInit : InitResolve(r)
    \/ \E r \in MayReject : InitReject(r)
    \/ \E r \in Routes : \E i \in 1..Len(running[r]) :
            \E how \in {"fulfilled", "rejected"} : WorkerSettle(r, i, how)
    \/ \E m \in Messages : Error429(m)
    \/ \E st \in OtherStatuses : ErrorStatus(st)
    \/ Disconnect
    \/ \E i \in 1..Len(sleeps) : BackoffFire(i)
    \/ HealthTick
    \/ \E ok \in BOOLEAN : WriteTick(ok)

Spec == Init /\ [][Next]_vars

\* startup alone, for any list of route classes
SpecAnyRoutes == InitAnyRoutes /\ [][Start]_vars

----------------------------------------------------------------------------
(* The messages of the transport, in any order and well-formed or not *)

\* the timestamps the messages carry: the server does not send the events
\* in the order of their timestamps
MsgTimes == {T0 - Backoff, T0}

\* event.data of a message: text that is no JSON, or the JSON of an object
\* with or without a meta object; data.timestamp and meta.domain where
\* there are any
RawMessages ==
    {[json |-> "valid", meta |-> TRUE, ts |-> t, domain |-> "en.wikipedia.org"]
        : t \in MsgTimes}
    \cup {[json |-> "valid", meta |-> TRUE, ts |-> T0, domain |-> "canary"],
          [json |-> "valid", meta |-> FALSE, ts |-> T0, domain |-> "none"],
          [json |-> "invalid", meta |-> FALSE, ts |-> NaN, domain |-> "none"]}

\* let data = JSON.parse(event.data); if (data.meta.domain === ...): what
\* the first two statements of stream.onmessage throw
messageThrows(raw) ==
    IF raw.json = "invalid" THEN "SyntaxError"
    ELSE IF ~raw.meta THEN "TypeError"
    ELSE "none"

\* the event a message parses into (its id is the order of receipt)
eventOf(raw) ==
    [id |-> Len(received) + 1, ts |-> raw.ts, type |-> "edit",
     domain |-> raw.domain]

\* The open connection hands a message to stream.onmessage.  Nothing in
\* the handler catches what its first two statements throw: the exception
\* leaves the handler into the transport that called it, where an uncaught
\* exception ends the process unless the embedding catches it.
Arrive(raw) ==
    /\ Running
    /\ inputs < MaxInputs
    /\ inputs' = inputs + 1
    /\ conns[stream].status = "open"
    /\ IF messageThrows(raw) = "none"
       THEN /\ onmessage(eventOf(raw))
            /\ UNCHANGED msgVars
       ELSE /\ thrown' = Append(thrown, messageThrows(raw))
            /\ alive' \in BOOLEAN
            /\ UNCHANGED <<received, file, lastSeenTs, lastRecvAt,
                           stallRestarts, chained, filterCalls, workerCalls,
                           errLog, escapes, orphans, running>>
    /\ UNCHANGED <<now, argvFromNow, writeDue, stream, conns, sleeps,
                   healthDue, upstream, ready, startupVars, unhandled,
                   errorsSeen, writes, flushed, g13Vars, storeVars>>

NextMsg ==
    \/ Start
    \/ Open
    \/ \E raw \in RawMessages : Arrive(raw)
    \/ Advance(Grace + SECOND)
    \/ \E ok \in BOOLEAN : WriteTick(ok)
    \/ HealthTick

\* the running system fed by the transport with any messages
SpecMsg == Init /\ [][NextMsg]_vars

----------------------------------------------------------------------------
(* The last-seen file as text: String(this.ts) written, parseInt read *)

Digits == <<"0", "1", "2", "3", "4", "5", "6", "7", "8", "9">>

RECURSIVE decimal(_)
\* the decimal digits of a non-negative integer, without leading zeros
decimal(n) ==
    IF n < 10 THEN <<Digits[n + 1]>>
    ELSE decimal(n \div 10) \o <<Digits[(n % 10) + 1]>>

\* String(this.ts): the decimal digits of a number, "undefined" of undefined
String(ts) ==
    IF ts = Undefined THEN <<"u", "n", "d", "e", "f", "i", "n", "e", "d">>
    ELSE decimal(ts)

\* the value of a decimal digit
digitValue(ch) == CHOOSE d \in 0..9 : Digits[d + 1] = ch

isDigit(ch) == \E d \in 0..9 : Digits[d + 1] = ch

RECURSIVE leadingDigits(_)
\* the longest prefix of a text that consists of digits
leadingDigits(chars) ==
    IF chars = <<>> \/ ~isDigit(Head(chars)) THEN <<>>
    ELSE <<Head(chars)>> \o leadingDigits(Tail(chars))

RECURSIVE valueOf(_)
\* the number a sequence of digits denotes
valueOf(ds) ==
    IF ds = <<>> THEN 0
    ELSE 10 * valueOf(SubSeq(ds, 1, Len(ds) - 1)) + digitValue(ds[Len(ds)])

\* Variant of parseInt: only the first character is converted.
parseInt_firstChar(chars) ==
    IF chars = <<>> \/ ~isDigit(Head(chars)) THEN NaN
    ELSE digitValue(Head(chars))

\* parseInt(text): the number of the leading digits, whatever follows them;
\* NaN when the text does not start with a digit.  (The texts here carry no
\* sign and no leading white space.)
parseInt(chars) ==
    IF leadingDigits(chars) = <<>> THEN NaN
    ELSE valueOf(leadingDigits(chars))

\* LastSeen.read() on the text: readFileSync throws for a file that is
\* missing or cannot be read, and the catch returns NaN
LastSeen_readText(d) == IF d.readable THEN parseInt(d.chars) ELSE NaN

\* the text of a last-seen file given by its content
diskOf(f) ==
    IF f = NoFile THEN [readable |-> FALSE, chars |-> <<>>]
    ELSE [readable |-> TRUE,
          chars |-> String(IF f = TextUndefined THEN Undefined ELSE f)]

\* the timestamps held in memory
Timestamps == 0..MaxTs \cup {T0, T0 + Grace + SECOND}

\* a cursor store with any timestamp, or none, in memory
InitStore ==
    /\ InitRest
    /\ routeDefs = Registered
    /\ lastSeenTs \in Timestamps \cup {Undefined}
    /\ disk = diskOf(file)

\* LastSeen.write(): fs.writeFile(this.file, String(this.ts), ...), which
\* replaces the file or fails and leaves it
StoreWrite(ok) ==
    /\ Len(writes) < MaxStoreOps
    /\ writes' = Append(writes, IF ok THEN "ok" ELSE "failed")
    /\ disk' = IF ok THEN [readable |-> TRUE, chars |-> String(lastSeenTs)]
               ELSE disk
    /\ file' = IF ok THEN LastSeen_text(lastSeenTs) ELSE file
    /\ UNCHANGED <<now, argvFromNow, lastSeenTs, writeDue, stream, conns,
                   sleeps, healthDue, upstream, ready, chained, received,
                   filterCalls, workerCalls, errLog, escapes, orphans,
                   lastRecvAt, stallRestarts, inputs, startupVars, running,
                   unhandled, errorsSeen, flushed, g13Vars, msgVars,
                   readBack>>

\* LastSeen.read()
StoreRead ==
    /\ Len(readBack) < MaxStoreOps
    /\ readBack' = Append(readBack, LastSeen_readText(disk))
    /\ UNCHANGED <<now, argvFromNow, lastSeenTs, file, writeDue, stream,
                   conns, sleeps, healthDue, upstream, ready, chained,
                   received, filterCalls, workerCalls, errLog, escapes,
                   orphans, lastRecvAt, stallRestarts, inputs, startupVars,
                   running, unhandled, errorsSeen, writes, flushed, g13Vars,
                   msgVars, disk>>

NextStore ==
    \/ \E ok \in BOOLEAN : StoreWrite(ok)
    \/ StoreRead

\* the cursor store alone: writes and reads in any order
SpecStore == InitStore /\ [][NextStore]_vars

----------------------------------------------------------------------------
(* The g13-watch route: src/reports/g13-watch/eventstream-watch.ts *)

\* The comments of the events, as the pieces that matter to the pattern:
\* "[[:", "]] ", "added", "removed", and other text.  A page added; a page
\* removed; another page added; a comment that does not start with "[[:";
\* one with another verb; one whose title contains "]] " itself.
Comments ==
    {<<"[[:", "Draft:P", "]] ", "added", " to category">>,
     <<"[[:", "Draft:P", "]] ", "removed", " from category">>,
     <<"[[:", "Draft:Q", "]] ", "added", " to category">>,
     <<"Draft:P", "]] ", "added">>,
     <<"[[:", "Draft:P", "]] ", "moved">>,
     <<"[[:", "Draft:P", "]] ", "x", "]] ", "added">>}

\* The events delivered to the route: categorize events of the watched
\* category with any of the comments, and an edit.
G13Events ==
    {[type |-> "categorize", comment |-> c, ts |-> T0] : c \in Comments}
        \cup {[type |-> "edit", comment |-> <<"typo">>, ts |-> T0]}

\* What bot.read(title) does at the time of an invocation: it fulfils with
\* the page's current revision, or with a page that is missing, or rejects.
Reads == {"text one", "text two", "missing", "rejects"}

\* What the database does with a statement: it executes it, or fails with
\* an error that is not ER_DUP_ENTRY.
DbStates == {"up", "down"}

\* g13Watch.filter(data): a categorize event (of the watched category on
\* enwiki, as all events here are)
filter(e) == e.type = "categorize"

\* /^\[\[:(.*?)\]\] (added|removed)/.exec(comment): the position of the
\* "]] " that ends the title, 0 when there is no match.  The comment has to
\* start with "[[:"; the title is the shortest text after it that is
\* followed by "]] " and one of the two verbs.
matchEnd(c) ==
    LET ends == {j \in 2..(Len(c) - 1) :
                    c[j] = "]] " /\ c[j + 1] \in {"added", "removed"}}
    IN  IF c = <<>> \/ c[1] # "[[:" \/ ends = {} THEN 0
        ELSE CHOOSE j \in ends : \A k \in ends : j <= k

\* pageFromCategoryEvent(data): null (the empty set here) unless the
\* comment matches; else the title and which of the verbs followed it
pageFromCategoryEvent(e) ==
    LET j == matchEnd(e.comment)
    IN  IF j = 0 THEN {}
        ELSE {[title |-> SubSeq(e.comment, 2, j - 1),
               added |-> j < Len(e.comment) /\ e.comment[j + 1] = "added",
               removed |-> j < Len(e.comment) /\ e.comment[j + 1] = "removed"]}

\* addToRouterLog(routeName, data): the line written to the routing log,
\* with the note +title@ or -title@ (an en dash in the source) for a
\* categorize event whose comment matches
addToRouterLog(name, e) ==
    LET page == IF e.type = "categorize" THEN pageFromCategoryEvent(e) ELSE {}
    IN  [op |-> "log", route |-> name, event |-> e,
         catNote |-> IF page = {} THEN <<>>
                     ELSE LET pg == CHOOSE pg \in page : TRUE
                          IN  <<IF pg.added THEN "+" ELSE "-", pg.title, "@">>]

\* Variant of routed: the worker is invoked without a line in the log.
routed_unlogged(name, e) ==
    <<[op |-> "worker", route |-> name, event |-> e, catNote |-> <<>>]>>

\* addToRouterLog(route.name, data); route.worker(data): what the
\* continuation does, in this order, for an event the filter accepts
routed(name, e) ==
    <<addToRouterLog(name, e),
      [op |-> "worker", route |-> name, event |-> e, catNote |-> <<>>]>>

\* TextExtractor.getExtract(text, ...): '' for a page without text
getExtract(rd) == IF rd = "missing" THEN "" ELSE rd

\* the row of INSERT INTO g13 VALUES(title, desc, extract, size, ts)
g13Row(title, rd, ts) ==
    [name |-> title, excerpt |-> getExtract(rd), ts |-> ts]

\* Variant of insert: the table has no unique key on name.
insert_noKey(table, row) == [result |-> "ok", table |-> table \cup {row}]

\* INSERT into a table whose column name is UNIQUE: a second row of the same
\* name fails with ER_DUP_ENTRY and leaves the table
insert(table, row) ==
    IF \E r \in table : r.name = row.name
    THEN [result |-> "ER_DUP_ENTRY", table |-> table]
    ELSE [result |-> "ok", table |-> table \cup {row}]

\* g13Watch.worker(data): how the returned promise settles, the table it
\* leaves, and what the page read gave if the worker got to it.  The read is
\* awaited outside the try; every error of the INSERT is caught:
\* ER_DUP_ENTRY is logged as a warning, any other logged.
worker(e, rd, db, table) ==
    LET page == pageFromCategoryEvent(e)
    IN  IF page = {} \/ \E pg \in page : ~pg.added
        THEN [ends |-> "returned", read |-> "none", table |-> table]
        ELSE IF rd = "rejects"
        THEN [ends |-> "rejected", read |-> rd, table |-> table]
        ELSE IF db = "down"
        THEN [ends |-> "logged", read |-> rd, table |-> table]
        ELSE LET pg == CHOOSE pg \in page : TRUE
                 done == insert(table, g13Row(pg.title, rd, e.ts))
             IN  [ends |-> IF done.result = "ok" THEN "inserted"
                           ELSE "duplicate",
                  read |-> rd,
                  table |-> done.table]

\* The continuation chained on the route's ready promise runs for an event
\* (a redelivery included): if (route.filter(data)) { addToRouterLog(...);
\* route.worker(data); }
G13Deliver(e, rd, db) ==
    /\ Len(g13Runs) < MaxRuns
    /\ IF filter(e)
       THEN LET out == worker(e, rd, db, g13Table)
            IN  /\ routerLog' = routerLog \o routed("g13-watch", e)
                /\ g13Table' = out.table
                /\ g13Runs' = Append(g13Runs,
                        [event |-> e, read |-> out.read, ends |-> out.ends])
       ELSE UNCHANGED g13Vars
    /\ UNCHANGED <<now, argvFromNow, lastSeenTs, file, writeDue, stream,
                   conns, sleeps, healthDue, upstream, ready, chained,
                   received, filterCalls, workerCalls, errLog, escapes,
                   orphans, lastRecvAt, stallRestarts, inputs, startupVars,
                   running, unhandled, errorsSeen, writes, flushed,
                   msgVars, storeVars>>

\* the g13-watch worker alone, invoked with any events in any order
NextG13 == \E e \in G13Events : \E rd \in Reads : \E db \in DbStates :
               G13Deliver(e, rd, db)

InitG13 == Init /\ file = NoFile

SpecG13 == InitG13 /\ [][NextG13]_vars

----------------------------------------------------------------------------
(* Type invariant *)

TypeOK ==
    /\ now >= T0
    /\ stream \in 0..Len(conns)
    /\ Len(upstream) <= MaxInputs
    /\ \A r \in Routes :
            ready[r] \in {"none", "pending", "resolved", "rejected"}
    /\ \A i \in 1..Len(conns) :
            conns[i].status \in {"connecting", "open", "failed", "closed"}
    /\ aborted \in BOOLEAN

----------------------------------------------------------------------------
(* Properties *)

\* the accepted (non-canary) messages, in the order received
accepted == SelectSeq(received, LAMBDA e : e.domain # "canary")

\* a step that creates a connection
Connects == Len(conns') = Len(conns) + 1

\* C1: in every reachable state at most one connection is not closed, and
\* every connection other than the current one is closed, whatever the
\* interleaving of the initial start, back-off restarts and health restarts.
C1_SingleConnection ==
    /\ Cardinality({i \in 1..Len(conns) : conns[i].status # "closed"}) <= 1
    /\ \A i \in 1..Len(conns) : i # stream => conns[i].status = "closed"

\* C1 witness: a back-off restart and a health restart have both happened
\* and the current connection is open.
C1_Witness ==
    /\ \E i \in 1..Len(conns) : conns[i].by = "backoff"
    /\ \E i \in 1..Len(conns) : conns[i].by = "health"
    /\ conns[stream].status = "open"

\* C2: for every route whose readiness has resolved, the filter has been
\* invoked for exactly the accepted events, in order, and the worker for
\* exactly those of them for which the filter returns true.
C2_FilterDecidesWorker ==
    \A r \in Routes : ready[r] = "resolved" =>
        /\ filterCalls[r] = accepted
        /\ workerCalls[r] =
               SelectSeq(accepted, LAMBDA e : RouteFilter(r, e) = "true")

\* C2 witness: the routing scenario.  An edit, a log event and a canary were
\* received in that order; alpha's worker got the edit, beta's the edit and
\* the log event.
C2_Witness ==
    /\ Len(received) = 3
    /\ received[1].type = "edit" /\ received[1].domain # "canary"
    /\ received[2].type = "log" /\ received[2].domain # "canary"
    /\ received[3].domain = "canary"
    /\ workerCalls["alpha"] = <<received[1]>>
    /\ workerCalls["beta"] = <<received[1], received[2]>>

\* C3: a canary message never reaches a filter or a worker (neither at once
\* nor through a continuation waiting for a route's init), and the step that
\* receives it leaves the in-memory cursor unchanged.
C3_CanaryIgnored ==
    /\ [](\A r \in Routes :
            \A e \in {filterCalls[r][i] : i \in 1..Len(filterCalls[r])}
                 \cup {workerCalls[r][i] : i \in 1..Len(workerCalls[r])}
                 \cup {chained[r][i] : i \in 1..Len(chained[r])} :
                e.domain # "canary")
    /\ [][(Len(received') = Len(received) + 1
            /\ Last(received').domain = "canary")
          => /\ lastSeenTs' = lastSeenTs
             /\ filterCalls' = filterCalls
             /\ workerCalls' = workerCalls]_vars

\* C3 witness: a canary was received after an accepted event; it carries a
\* later timestamp, and the cursor still holds the accepted event's.
C3_Witness ==
    /\ Len(received) >= 2
    /\ Last(received).domain = "canary"
    /\ received[Len(received) - 1].domain # "canary"
    /\ lastSeenTs = received[Len(received) - 1].ts
    /\ Last(received).ts > lastSeenTs

\* C4: while the current connection is open, every non-canary event that has
\* occurred upstream since the first connect either has been received or is
\* still ahead of the connection's position.
C4_NoEventSkipped ==
    (stream # 0 /\ conns[stream].status = "open") =>
        \A i \in 1..Len(upstream) :
            upstream[i].domain # "canary" =>
                \/ \E k \in 1..Len(received) : received[k].id = i
                \/ i >= conns[stream].pos

\* C5: every connect resumes from the cursor if the cursor is present,
\* strictly newer than now minus 7 days, and argv.fromNow is not set; in
\* every other case it resumes from the current time.
C5_ResumePolicy ==
    [][Connects =>
        LET cursor == IF lastSeenTs # Undefined THEN lastSeenTs
                      ELSE IF file >= 0 THEN file ELSE NaN
            resumes == /\ cursor # NaN
                       /\ now - 7 * DAY < cursor
                       /\ ~argvFromNow
        IN  Last(conns').since = IF resumes THEN cursor ELSE now]_vars

\* C5 witness: the persisted cursor is 8 days old and the first connection
\* resumed from the current time.
C5_Witness ==
    /\ file = T0 - 8 * DAY
    /\ lastSeenTs = Undefined
    /\ Len(conns) = 1
    /\ conns[1].since = now

\* C6: a restart that finds events accepted, the last of them less than 7
\* days old, and argv.fromNow unset, connects with since equal to the
\* timestamp of the last accepted event.
C6_RestartRecomputes ==
    [][(/\ Connects
        /\ Len(conns) >= 1
        /\ accepted # <<>>
        /\ ~argvFromNow
        /\ now - 7 * DAY < Last(accepted).ts)
       => Last(conns').since = Last(accepted).ts]_vars

\* C6 witness: the current connection was made by a restart from the last
\* accepted event's timestamp, which is later than the resume point of the
\* first connect.
C6_Witness ==
    /\ Len(conns) >= 2
    /\ ~argvFromNow
    /\ accepted # <<>>
    /\ conns[stream].since = Last(accepted).ts
    /\ conns[stream].since > conns[1].since

\* a step of the health-check interval
HealthTicks == healthDue # 0 /\ healthDue' # healthDue

\* the silence so far: time since the last accepted event (or process start)
silence == now - lastRecvAt

\* the cursor as the health check reads it
cursorNow ==
    IF lastSeenTs # Undefined THEN lastSeenTs
    ELSE IF file >= 0 THEN file ELSE NaN

C8_StallAlwaysRestarts ==
    [][(HealthTicks /\ conns[stream].status = "open" /\ silence > 2 * MINUTE)
       => Connects]_vars

\* C9: a route whose init rejected stays rejected, has never had its filter
\* or worker invoked and has no dispatch waiting, while every route that is
\* ready has had its filter invoked for every accepted event.
C9_RejectedRouteExcluded ==
    /\ [](\A r \in Routes :
            /\ ready[r] = "rejected" =>
                  filterCalls[r] = <<>> /\ workerCalls[r] = <<>>
                  /\ chained[r] = <<>>
            /\ ready[r] = "resolved" => filterCalls[r] = accepted)
    /\ [][\A r \in Routes :
            ready[r] = "rejected" => ready'[r] = "rejected"]_vars

\* C9 witness: gamma's init rejected; events were accepted before and after
\* a restart, and beta's worker was invoked for each of them.
C9_Witness ==
    /\ ready["gamma"] = "rejected"
    /\ Len(conns) >= 2
    /\ Len(accepted) >= 2
    /\ conns[stream].pos > replayFrom(upstream, conns[stream].since)
    /\ workerCalls["beta"] = accepted

\* C10: no exception has left a dispatch, and for every ready route r and
\* accepted event A on which r's filter or worker throws: the error was
\* logged with r's name, every ready route has been dispatched A, r has been
\* dispatched every accepted event (so each later event B too), and the
\* cursor holds the timestamp of the last accepted event.
C10_ThrowIsIsolated ==
    /\ escapes = {}
    /\ \A r \in Routes : \A k \in 1..Len(accepted) :
        (/\ ready[r] = "resolved"
         /\ \/ RouteFilter(r, accepted[k]) = "throw"
            \/ /\ RouteFilter(r, accepted[k]) = "true"
               /\ RouteWorker(r, accepted[k]) = "throw")
        => /\ <<r, accepted[k].id>> \in errLog
           /\ \A q \in Routes : ready[q] = "resolved" =>
                 \E j \in 1..Len(filterCalls[q]) :
                     filterCalls[q][j].id = accepted[k].id
           /\ filterCalls[r] = accepted
           /\ lastSeenTs = Last(accepted).ts

\* C10 witness: gamma threw on the first accepted event and was dispatched
\* a later one, on which its worker was invoked.
C10_Witness ==
    /\ Len(accepted) >= 2
    /\ <<"gamma", accepted[1].id>> \in errLog
    /\ Len(filterCalls["gamma"]) >= 2
    /\ workerCalls["gamma"] # <<>>
    /\ Last(workerCalls["gamma"]).id = Last(accepted).id
    /\ Last(accepted).id # accepted[1].id

\* a step in which stream.onmessage accepts a message (not a canary)
Accepts ==
    /\ Len(received') = Len(received) + 1
    /\ ~isCanary(Last(received'))

\* a step in which stream.onerror is called
OnErrorStep == Len(errorsSeen') = Len(errorsSeen) + 1

\* C11: every error of a route's filter or worker, thrown or delivered by a
\* worker's promise that rejects later, is caught: no exception has left a
\* dispatch and no worker promise has ended as an unhandled rejection.
C11_WorkerErrorsCaught == escapes = {} /\ unhandled = {}

\* C12: a failing init produces no unhandled rejection: neither the ready
\* promise nor any continuation chained on it, before or after the failure,
\* has ended rejected without a handler.
C12_InitFailureContained == orphans = 0

\* a route class as the contract wants it: a name, and callable filter and
\* worker
wellFormed(d) == d.name # "" /\ d.filter = "function" /\ d.worker = "function"

\* C13: once startup has run, it has not aborted: the stream is started and
\* the registered routes are exactly the given classes that have a name and
\* a callable filter and worker, in the given order.
C13_ValidationExcludes ==
    (stream # 0 \/ aborted) =>
        /\ ~aborted
        /\ stream # 0
        /\ validated = validatedRoutes(SelectSeq(routeDefs, wellFormed))

\* C14: in every state no registered route has an empty name and no two
\* registered routes have the same name.
C14_UniqueNonEmptyNames ==
    \A i, j \in 1..Len(validated) :
        /\ validated[i] # ""
        /\ i # j => validated[i] # validated[j]

\* C15: once the stream is started, init() of every valid route has been
\* invoked exactly once; no later step, a back-off or health restart
\* included, changes the registered routes or the number of init() calls,
\* replaces a readiness signal by a new one, or changes one that has
\* settled.
C15_InitOnce ==
    /\ [](stream # 0 =>
            \A i \in 1..Len(routeDefs) :
                validate(routeDefs[i]) = "valid" => initCalls[i] = 1)
    /\ [][stream # 0 =>
            /\ UNCHANGED <<routeDefs, validated, initCalls>>
            /\ \A r \in Routes :
                  /\ ready[r] \in {"resolved", "rejected"}
                        => ready'[r] = ready[r]
                  /\ ready'[r] # ready[r] => ready[r] = "pending"]_vars

\* C15 witness: gamma's init has failed, a back-off restart and a health
\* restart have happened, and every init() has been called once.
C15_Witness ==
    /\ ready["gamma"] = "rejected"
    /\ \E i \in 1..Len(conns) : conns[i].by = "backoff"
    /\ \E i \in 1..Len(conns) : conns[i].by = "health"
    /\ initCalls = <<1, 1, 1>>
    /\ validated = <<"alpha", "beta", "gamma">>

\* C16: while some route's init is pending, the connection can still open,
\* and every step that accepts a message sets the cursor to its timestamp,
\* invokes the filter of every ready route on it and the worker of those
\* whose filter returns true, and only queues it for the pending route.
C16_PendingInitBlocksOnlyItself ==
    /\ []((/\ \E r \in Routes : ready[r] = "pending"
           /\ Running
           /\ conns[stream].status = "connecting") => ENABLED Open)
    /\ [][(Accepts /\ \E r \in Routes : ready[r] = "pending") =>
            LET e == Last(received')
            IN  /\ lastSeenTs' = e.ts
                /\ \A q \in Routes :
                      /\ ready[q] = "resolved" =>
                            /\ filterCalls'[q] = Append(filterCalls[q], e)
                            /\ workerCalls'[q] =
                                  IF RouteFilter(q, e) = "true"
                                  THEN Append(workerCalls[q], e)
                                  ELSE workerCalls[q]
                      /\ ready[q] = "pending" =>
                            /\ filterCalls'[q] = filterCalls[q]
                            /\ workerCalls'[q] = workerCalls[q]
                            /\ chained'[q] = Append(chained[q], e)]_vars

\* C16 witness: gamma's init is still pending after two accepted events;
\* both are queued for gamma, alpha and beta have been dispatched both.
C16_Witness ==
    /\ ready["gamma"] = "pending"
    /\ Len(accepted) = 2
    /\ chained["gamma"] = accepted
    /\ filterCalls["gamma"] = <<>>
    /\ filterCalls["alpha"] = accepted
    /\ workerCalls["beta"] = accepted
    /\ lastSeenTs = Last(accepted).ts

\* C17: the next message can always be delivered, whatever workers are
\* running; every step that accepts a message sets the cursor, invokes the
\* filter of every ready route, leaves every worker promise that was pending
\* before the step pending, and returns with the promise of each worker it
\* started still pending.
C17_NeverWaitsForWorker ==
    /\ []((/\ Running
           /\ conns[stream].status = "open"
           /\ conns[stream].pos <= Len(upstream)) => ENABLED Deliver)
    /\ [][Accepts =>
            LET e == Last(received')
            IN  /\ lastSeenTs' = e.ts
                /\ \A r \in Routes :
                      /\ ready[r] = "resolved" =>
                            filterCalls'[r] = Append(filterCalls[r], e)
                      /\ Len(running'[r]) >= Len(running[r])
                      /\ SubSeq(running'[r], 1, Len(running[r])) = running[r]
                      /\ (/\ ready[r] = "resolved"
                          /\ RouteFilter(r, e) = "true"
                          /\ RouteWorker(r, e) = "promise")
                            => running'[r] = Append(running[r], e.id)]_vars

\* C17 witness: three messages have been accepted and dispatched to alpha
\* and beta while the promises of beta's workers for all three are pending.
C17_Witness ==
    /\ Len(accepted) = 3
    /\ running["beta"] = idsOf(accepted)
    /\ filterCalls["alpha"] = accepted
    /\ workerCalls["beta"] = accepted
    /\ accepted[1].id # accepted[2].id /\ accepted[2].id # accepted[3].id

\* C18: every call of stream.onerror with an event of status 429, whatever
\* its other fields, schedules a restart 5 seconds later.
C18_RateLimitRestarts ==
    [][(OnErrorStep /\ Last(errorsSeen').status = 429)
       => sleeps' = Append(sleeps, now + 5 * SECOND)]_vars

\* C19: a call of stream.onerror with an event that is not rate limiting
\* (a drop without message, or another status) creates and closes no
\* connection, keeps the connection handle, the cursor in memory and on
\* file, the registered routes and their readiness, and schedules nothing.
C19_OtherErrorsChangeNothing ==
    [][(OnErrorStep /\ Last(errorsSeen').status # 429) =>
        /\ UNCHANGED <<stream, lastSeenTs, file, validated, ready, chained,
                       sleeps, healthDue, writeDue>>
        /\ Len(conns') = Len(conns)
        /\ \A i \in 1..Len(conns) :
              /\ conns'[i].since = conns[i].since
              /\ conns'[i].pos = conns[i].pos
              /\ conns'[i].status = "closed" <=> conns[i].status = "closed"
      ]_vars

\* C19 witness: the one connection was dropped and its reconnection was
\* answered with status 500; nothing is scheduled, and the transport has
\* opened the same connection again after an event was accepted on it.
C19_Witness ==
    /\ Len(errorsSeen) = 2
    /\ errorsSeen[1] = ErrorEvent("undefined", Undefined)
    /\ errorsSeen[2] = ErrorEvent("text", 500)
    /\ Len(conns) = 1
    /\ conns[1].status = "open"
    /\ sleeps = <<>>
    /\ accepted # <<>>
    /\ lastSeenTs = Last(accepted).ts

\* the connector's state in the terms of the stated lifecycle
lifecycle ==
    IF stream = 0 THEN "Disconnected"
    ELSE CASE conns[stream].status = "connecting" -> "Connecting"
           [] conns[stream].status = "open"       -> "Connected"
           [] OTHER                               -> "Reconnecting"

\* the transitions of the stated lifecycle; a step from Connected to
\* Connecting passes through Reconnecting within one handler
Transitions ==
    {<<"Disconnected", "Connecting">>, <<"Connecting", "Connected">>,
     <<"Connected", "Reconnecting">>, <<"Reconnecting", "Connecting">>,
     <<"Connected", "Connecting">>}

\* a state the connector never leaves: the transport has closed the
\* connection, no restart is scheduled, and the cursor the health check
\* reads is not a date and cannot become one
terminal ==
    /\ stream # 0
    /\ conns[stream].status = "failed"
    /\ sleeps = <<>>
    /\ lastSeenTs = Undefined
    /\ ~isValid(LastSeen_read(file))

\* C20: every change of the connector's state is a transition of the
\* stated lifecycle, a restart is taken only from Connected (or from
\* Reconnecting, which follows it), and no reachable state is terminal.
C20_Lifecycle ==
    /\ [][lifecycle' # lifecycle
            => <<lifecycle, lifecycle'>> \in Transitions]_vars
    /\ [][(Connects /\ stream # 0)
            => lifecycle \in {"Connected", "Reconnecting"}]_vars
    /\ [](~terminal)

\* a step of the persistence timer: one more LastSeen.write() has ended
WriteTicks == Len(writes') = Len(writes) + 1

\* C21: the cursor that get() returns is the in-memory timestamp whenever one
\* has been recorded, whatever the file holds; otherwise the number in the
\* file; and with no in-memory timestamp and no number to read (no file, or a
\* file that holds no number) it is the invalid date, never anything else.
C21_GetPrefersMemory ==
    LET got == LastSeen_get(lastSeenTs, file)
    IN  /\ lastSeenTs # Undefined => got = lastSeenTs
        /\ (lastSeenTs = Undefined /\ file >= 0) => got = file
        /\ (lastSeenTs = Undefined /\ file < 0) => got = NaN /\ ~isValid(got)

\* C21 witness: a timestamp is recorded in memory, the file holds another
\* number, and a restart has resumed from the in-memory one.
C21_Witness ==
    /\ lastSeenTs >= 0
    /\ file >= 0
    /\ file # lastSeenTs
    /\ Len(conns) >= 2
    /\ ~argvFromNow
    /\ conns[stream].since = lastSeenTs

\* C22: a step that accepts a message sets the in-memory cursor to the
\* message's timestamp and leaves the file as it is; the file changes only in
\* a step of the persistence timer; and the steps that read the cursor (a
\* connect, a health check) change neither the in-memory cursor nor the file.
C22_UpdateNeverPersists ==
    [][ /\ Accepts => (file' = file /\ lastSeenTs' = Last(received').ts)
        /\ file' # file => WriteTicks
        /\ (Connects \/ HealthTicks) => UNCHANGED <<lastSeenTs, file>>
      ]_vars

\* C22 witness: the timer wrote the first accepted event's timestamp; a
\* second event has been accepted since, and the file still holds the first.
C22_Witness ==
    /\ Len(accepted) >= 2
    /\ writes # <<>>
    /\ file = accepted[1].ts
    /\ lastSeenTs = Last(accepted).ts
    /\ file # lastSeenTs

\* C23: every tick of the persistence timer, failed or not, leaves the
\* in-memory cursor, the connections, the pending restarts and the routes
\* unchanged and arms the next tick one interval later; a failed write
\* leaves the file as it was, and a write that succeeds with a timestamp in
\* memory leaves the file equal to the in-memory cursor.
C23_FailedWriteRetried ==
    [][WriteTicks =>
        /\ UNCHANGED <<lastSeenTs, stream, conns, sleeps, healthDue, ready,
                       chained, validated, aborted>>
        /\ writeDue' = now + SECOND
        /\ Last(writes') = "failed" => file' = file
        /\ (Last(writes') = "ok" /\ lastSeenTs >= 0) => file' = lastSeenTs
      ]_vars

\* C23 witness: a write failed with an event's timestamp in memory, the
\* next tick's write succeeded, and the file now equals the in-memory
\* cursor while the connection is still the first one, open.
C23_Witness ==
    /\ \E i \in 1..(Len(writes) - 1) :
            writes[i] = "failed" /\ writes[i + 1] = "ok"
    /\ accepted # <<>>
    /\ file = lastSeenTs
    /\ lastSeenTs = Last(accepted).ts
    /\ stream = 1
    /\ conns[1].status = "open"

\* a step in which the g13-watch worker has run once more
G13Step == Len(g13Runs') = Len(g13Runs) + 1

\* the worker's run of this step is for a category-add event whose page
\* already has its row in the table (a redelivery)
Redelivers ==
    /\ G13Step
    /\ \E pg \in pageFromCategoryEvent(Last(g13Runs').event) :
            pg.added /\ \E row \in g13Table : row.name = pg.title

\* C24 as stated: a redelivery of a category-add event leaves the table as
\* it is and raises no error out of the worker.
C24_Idempotent ==
    [][Redelivers =>
        /\ g13Table' = g13Table
        /\ Last(g13Runs').ends # "rejected"]_vars

\* C24 amended: a redelivery of a category-add event leaves the table as it
\* is, whatever text the page read returns and whether or not the database
\* is reachable; the worker's promise rejects exactly when the page read
\* rejects, and otherwise the run ends with the duplicate swallowed or the
\* database error logged; the table never holds two rows with one name.
C24_IdempotentUnlessReadFails ==
    /\ [][Redelivers =>
            /\ g13Table' = g13Table
            /\ Last(g13Runs').ends \in {"duplicate", "logged", "rejected"}
            /\ Last(g13Runs').ends = "rejected"
                    <=> Last(g13Runs').read = "rejects"]_vars
    /\ [](\A r1, r2 \in g13Table : r1.name = r2.name => r1 = r2)

\* C24 witness: the same category-add event was delivered twice, the page
\* text differing between the two reads; the first run inserted the row, the
\* second ended with the duplicate swallowed, and the table holds one row.
C24_Witness ==
    /\ Len(g13Runs) >= 2
    /\ g13Runs[1].event.type = "categorize"
    /\ g13Runs[1].ends = "inserted"
    /\ g13Runs[2].event = g13Runs[1].event
    /\ g13Runs[2].read # g13Runs[1].read
    /\ g13Runs[2].ends = "duplicate"
    /\ Cardinality(g13Table) = 1

\* C25: a health-check tick that finds an event accepted within the last 2
\* minutes does not call start().
C25_RestartOnlyAfterSilence ==
    [][(HealthTicks /\ accepted # <<>> /\ silence <= 2 * MINUTE)
            => ~Connects]_vars

\* the resume point the policy gives for the cursor as it is now
resumePoint ==
    IF cursorNow # NaN /\ now - 7 * DAY < cursorNow /\ ~argvFromNow
    THEN cursorNow ELSE now

\* C26: every restart, whichever trigger made it and whatever the other
\* trigger did before, closes the connection it finds, leaves the older
\* ones as they are, opens one connection that becomes the current one and
\* resumes from the point the cursor gives at that moment, and changes
\* neither the cursor nor any route's readiness or queue; once started,
\* exactly one connection is not closed, the current one.
C26_RestartsCompose ==
    /\ [][(Connects /\ stream # 0) =>
            /\ Len(conns') = Len(conns) + 1
            /\ stream' = Len(conns')
            /\ conns'[stream].status = "closed"
            /\ \A i \in 1..Len(conns) : i # stream => conns'[i] = conns[i]
            /\ Last(conns').status # "closed"
            /\ Last(conns').since = resumePoint
            /\ UNCHANGED <<lastSeenTs, file, ready, chained>>]_vars
    /\ [](stream # 0 =>
            {i \in 1..Len(conns) : conns[i].status # "closed"} = {stream})

\* C26 witness: the first connection was rate-limited; the health monitor
\* restarted while the back-off was pending, and the back-off timer of the
\* replaced connection fired afterwards and restarted again; the third
\* connection is the only one not closed.
C26_Witness ==
    /\ Len(conns) = 3
    /\ conns[2].by = "health"
    /\ conns[3].by = "backoff"
    /\ sleeps = <<>>
    /\ stream = 3
    /\ conns[1].status = "closed"
    /\ conns[2].status = "closed"

\* C27: for every route whose init has resolved, the events its filter was
\* evaluated for are the accepted events in the order received, those queued
\* while its init was pending included, and the events its worker was
\* invoked with are those of them its filter accepts, in the same order; for
\* a route whose init is pending, the queue holds the accepted events in the
\* order received.
C27_PerRouteOrder ==
    \A r \in Routes :
        /\ ready[r] = "resolved" => filterCalls[r] = accepted
        /\ ready[r] = "pending" => chained[r] = accepted
        /\ ready[r] \in {"pending", "resolved"} =>
                workerCalls[r] = SelectSeq(filterCalls[r],
                                     LAMBDA e : RouteFilter(r, e) = "true")

\* C27 witness: two different events were queued while gamma's init was
\* pending and dispatched when it resolved, a third event was accepted
\* afterwards, and gamma's filter saw the three in the order received.
C27_Witness ==
    /\ flushed["gamma"] = 2
    /\ Len(accepted) = 3
    /\ accepted[1].id # accepted[2].id
    /\ filterCalls["gamma"] = accepted

\* C28: while a route's init is pending, its queue holds every accepted
\* event since the start, one entry per receipt, and its filter has not been
\* evaluated; the step in which the init resolves evaluates the filter for
\* exactly the queued entries, invokes the worker for those the filter
\* accepts, and empties the queue; while the init stays pending the queue
\* never shrinks.
C28_BufferedNotDropped ==
    /\ [](\A r \in Routes : ready[r] = "pending" =>
            /\ Len(chained[r]) = Len(accepted)
            /\ chained[r] = accepted
            /\ filterCalls[r] = <<>>)
    /\ [][\A r \in Routes :
            /\ (ready[r] = "pending" /\ ready'[r] = "resolved") =>
                    /\ filterCalls'[r] = chained[r]
                    /\ workerCalls'[r] = SelectSeq(chained[r],
                            LAMBDA e : RouteFilter(r, e) = "true")
                    /\ chained'[r] = <<>>
            /\ (ready[r] = "pending" /\ ready'[r] = "pending") =>
                    /\ Len(chained'[r]) >= Len(chained[r])
                    /\ SubSeq(chained'[r], 1, Len(chained[r])) = chained[r]
         ]_vars

\* C28 witness: an event was received twice while gamma's init was pending,
\* the second time replayed after a restart had replaced the connection;
\* the init then resolved and gamma's filter was evaluated once per receipt.
C28_Witness ==
    /\ Len(conns) >= 2
    /\ flushed["gamma"] = 2
    /\ Len(accepted) = 2
    /\ accepted[1].id = accepted[2].id
    /\ Len(filterCalls["gamma"]) = 2

C30_PersistedIsTimestamp ==
    [][file >= 0 => file' >= 0]_vars

\* a step in which stream.onmessage was handed a message that does not parse
\* into an event
Malformed == Len(thrown') = Len(thrown) + 1

\* C31: whenever a message has been accepted, the in-memory cursor is the
\* timestamp of the message accepted last, whether or not an earlier one
\* carried a greater timestamp, and every restart after it resumes from
\* that timestamp if it is less than 7 days old and argv.fromNow is unset.
C31_CursorIsLastReceived ==
    /\ [](accepted # <<>> => lastSeenTs = Last(accepted).ts)
    /\ [][(Connects /\ accepted # <<>> /\ ~argvFromNow
                /\ now - 7 * DAY < Last(accepted).ts)
            => Last(conns').since = Last(accepted).ts]_vars

\* C31 witness: the message accepted last carries a lower timestamp than
\* the one before it; the cursor has moved back to it, and a restart has
\* resumed from it.
C31_Witness ==
    /\ Len(accepted) = 2
    /\ accepted[2].ts < accepted[1].ts
    /\ lastSeenTs = accepted[2].ts
    /\ Len(conns) = 2
    /\ ~argvFromNow
    /\ conns[2].since = accepted[2].ts

\* C32: a step in which stream.onmessage is handed a message that does not
\* parse into an event updates neither the cursor nor the file, invokes no
\* route's filter or worker, queues nothing, and leaves the process running,
\* so that the next message is handled.
C32_MalformedChangesNothing ==
    [][Malformed =>
        /\ UNCHANGED <<lastSeenTs, file, received, chained, filterCalls,
                       workerCalls>>
        /\ alive']_vars

\* a step in which LastSeen.read() has returned
StoreReads == Len(readBack') = Len(readBack) + 1

\* C33: a read that follows a successful write, with a timestamp in memory,
\* returns that timestamp; a read of a file that is missing or cannot be
\* read returns NaN; and a read is possible in every state, whatever the
\* file holds.
C33_RoundTrip ==
    /\ [][StoreReads =>
            /\ (lastSeenTs >= 0 /\ writes # <<>> /\ Last(writes) = "ok")
                    => Last(readBack') = lastSeenTs
            /\ ~disk.readable => Last(readBack') = NaN]_vars
    /\ [](Len(readBack) < MaxStoreOps => ENABLED StoreRead)

\* C33 witness: the first read found no file and returned NaN; the
\* six-digit timestamp in memory was then written and the second read
\* returned it.
C33_Witness ==
    /\ Len(readBack) = 2
    /\ readBack[1] = NaN
    /\ writes = <<"ok">>
    /\ lastSeenTs = T0 + Grace + SECOND
    /\ readBack[2] = lastSeenTs
    /\ Len(disk.chars) = 6

\* the comment reads "[[:" title "]] " and then added or removed
matchesPattern(c) ==
    /\ c # <<>>
    /\ c[1] = "[[:"
    /\ \E j \in 2..(Len(c) - 1) :
            c[j] = "]] " /\ c[j + 1] \in {"added", "removed"}

\* C34: every worker invocation in the route's history comes right after a
\* line of the routing log for the same route and event, and the worker has
\* run once per such line; for a categorize event whose comment matches the
\* pattern, the page extracted has exactly one of added and removed true,
\* its title is the text between "[[:" and the "]] " before the verb, and
\* the log line carries the note for it; for a comment that does not match,
\* nothing is extracted, the log line carries no note, and the worker is
\* invoked all the same.
C34_RoutedAndLogged ==
    /\ [](\A i \in 1..Len(routerLog) : routerLog[i].op = "worker" =>
            /\ i > 1
            /\ routerLog[i - 1].op = "log"
            /\ routerLog[i - 1].route = routerLog[i].route
            /\ routerLog[i - 1].event = routerLog[i].event)
    /\ [](Len(routerLog) = 2 * Len(g13Runs))
    /\ [][G13Step =>
            LET e == Last(g13Runs').event
                c == e.comment
                page == pageFromCategoryEvent(e)
                line == routerLog'[Len(routerLog') - 1]
            IN  /\ Last(routerLog').op = "worker"
                /\ Last(routerLog').event = e
                /\ line.event = e
                /\ matchesPattern(c) =>
                        /\ Cardinality(page) = 1
                        /\ \A pg \in page :
                            /\ pg.added # pg.removed
                            /\ SubSeq(c, 1, Len(pg.title) + 3) =
                                    <<"[[:">> \o pg.title \o
                                    <<"]] ", IF pg.added THEN "added"
                                             ELSE "removed">>
                            /\ line.catNote =
                                    <<IF pg.added THEN "+" ELSE "-",
                                      pg.title, "@">>
                /\ ~matchesPattern(c) =>
                        /\ page = {}
                        /\ line.catNote = <<>>]_vars

\* C34 witness: an event whose comment names an added page was logged with
\* its note and handed to the worker; then an event whose comment has
\* another verb was logged without a note and handed to the worker as well,
\* which returned at once.
C34_Witness ==
    /\ Len(routerLog) = 4
    /\ routerLog[1].op = "log"
    /\ routerLog[1].catNote # <<>>
    /\ routerLog[2].op = "worker"
    /\ routerLog[3].op = "log"
    /\ routerLog[3].event.comment = <<"[[:", "Draft:P", "]] ", "moved">>
    /\ routerLog[3].catNote = <<>>
    /\ routerLog[4].op = "worker"
    /\ routerLog[4].event = routerLog[3].event
    /\ g13Runs[2].ends = "returned"

============================================================================
